---- MODULE Spec2Model ----
(***************************************************************************)
(* A model of src/main.py: the sitemap cache (parse_sitemap), the label    *)
(* locator (retrieve_entry), the value parsers (parse_power, parse_weight, *)
(* parse_power_weight_ratio), the page extractor (retrieve_page) and the   *)
(* worker pool that drives it (retrieve_data, export_data).                *)
(*                                                                         *)
(* Text is a sequence of one-character strings.  Python values are records *)
(* tagged by "kind": None, str, float (an exact fraction num/den), int,    *)
(* a pair (the tuples parse_power and parse_weight return), a dict (the    *)
(* record retrieve_page returns) and raise (an exception leaving a call).  *)
(***************************************************************************)
EXTENDS Integers, Sequences, FiniteSets, TLC

(***************************************************************************)
(* Bounds of the model.                                                    *)
(***************************************************************************)
MaxRows == 2        \* rows of a specification table on a page
MaxLocs == 2        \* <url> entries of the sitemap
MaxCalls == 3       \* successive calls of parse_sitemap
MaxPages == 3       \* page identifiers handed to retrieve_data

(***************************************************************************)
(* Program constants.                                                      *)
(***************************************************************************)
N_PROCESS == 24

(***************************************************************************)
(* Python values.                                                          *)
(***************************************************************************)
None == [kind |-> "None"]
Str(s) == [kind |-> "str", val |-> s]
IntVal(n) == [kind |-> "int", val |-> n]
Pair(a, b) == [kind |-> "pair", fst |-> a, snd |-> b]
Raise(e) == [kind |-> "raise", exc |-> e]
IsNone(v) == v.kind = "None"
IsRaise(v) == v.kind = "raise"

RECURSIVE Gcd(_, _)
Gcd(a, b) == IF b = 0 THEN a ELSE Gcd(b, a % b)
Abs(n) == IF n < 0 THEN -n ELSE n

\* A float, as the exact fraction n/d in lowest terms with d > 0.
Float(n, d) ==
    LET g == Gcd(Abs(n), Abs(d))
        sgn == IF d < 0 THEN -1 ELSE 1
    IN  [kind |-> "float", num |-> sgn * (n \div g), den |-> sgn * (d \div g)]

\* a / b on floats; the callers guard b by truthiness, so b is never zero.
FloatDiv(a, b) == Float(a.num * b.den, a.den * b.num)

\* bool(v) for the values `if power_hp:` is applied to: None and 0.0 are false.
Truthy(v) == v.kind = "float" /\ v.num # 0

(***************************************************************************)
(* Text primitives.                                                        *)
(***************************************************************************)
Digits == {"0", "1", "2", "3", "4", "5", "6", "7", "8", "9"}
Whitespace == {" ", "\n", "\t", "\r"}

DigitVal(c) ==
    CASE c = "0" -> 0 [] c = "1" -> 1 [] c = "2" -> 2 [] c = "3" -> 3
      [] c = "4" -> 4 [] c = "5" -> 5 [] c = "6" -> 6 [] c = "7" -> 7
      [] c = "8" -> 8 [] c = "9" -> 9

RECURSIVE Pow10(_)
Pow10(k) == IF k = 0 THEN 1 ELSE 10 * Pow10(k - 1)

\* The number a sequence of digits denotes (0 for the empty sequence).
RECURSIVE DigitsVal(_)
DigitsVal(s) ==
    IF s = <<>> THEN 0
    ELSE 10 * DigitsVal(SubSeq(s, 1, Len(s) - 1)) + DigitVal(s[Len(s)])

AllDigits(s) == \A i \in 1..Len(s) : s[i] \in Digits

\* s.replace(old, '') for a one-character old.
RECURSIVE Remove(_, _)
Remove(s, old) ==
    IF s = <<>> THEN <<>>
    ELSE IF Head(s) = old THEN Remove(Tail(s), old)
    ELSE <<Head(s)>> \o Remove(Tail(s), old)

\* s.strip(): float() and int() ignore surrounding whitespace.
RECURSIVE LStrip(_)
LStrip(s) ==
    IF s # <<>> /\ Head(s) \in Whitespace THEN LStrip(Tail(s)) ELSE s
RECURSIVE RStrip(_)
RStrip(s) ==
    IF s # <<>> /\ s[Len(s)] \in Whitespace
    THEN RStrip(SubSeq(s, 1, Len(s) - 1)) ELSE s
Strip(s) == RStrip(LStrip(s))

\* The sign of a numeral and the numeral without it.
SignOf(s) == IF s # <<>> /\ s[1] = "-" THEN -1 ELSE 1
Unsigned(s) == IF s # <<>> /\ s[1] \in {"-", "+"} THEN Tail(s) ELSE s

\* Position of the first "." of s, or 0.
DotAt(s) ==
    IF \E i \in 1..Len(s) : s[i] = "."
    THEN CHOOSE i \in 1..Len(s) : s[i] = "." /\ \A j \in 1..(i - 1) : s[j] # "."
    ELSE 0

\* float(s) for texts made of digits, signs, points, blanks and the letters
\* and brackets of the sample value texts (no exponent, underscore, "inf"
\* or "nan" occurs in them): an optional sign, digits with at most one
\* point and at least one digit; anything else raises ValueError.
PyFloat(s) ==
    LET u == Unsigned(Strip(s))
        p == DotAt(u)
        ip == IF p = 0 THEN u ELSE SubSeq(u, 1, p - 1)
        fp == IF p = 0 THEN <<>> ELSE SubSeq(u, p + 1, Len(u))
    IN  IF AllDigits(ip) /\ AllDigits(fp) /\ Len(ip) + Len(fp) > 0
        THEN Float(SignOf(Strip(s)) * DigitsVal(ip \o fp), Pow10(Len(fp)))
        ELSE Raise("ValueError")

\* int(s) on a string: optional sign and at least one digit, else ValueError.
PyInt(s) ==
    LET u == Unsigned(Strip(s))
    IN  IF AllDigits(u) /\ Len(u) > 0
        THEN IntVal(SignOf(Strip(s)) * DigitsVal(u))
        ELSE Raise("ValueError")

\* float(capture.replace(',', '')), the conversion of every numeric capture.
ToNumber(capture) == PyFloat(Remove(capture, ","))

(***************************************************************************)
(* Regular expressions.                                                    *)
(***************************************************************************)
\* One pattern element against one character: "." is any character but a
\* line break, "\\s" is whitespace, anything else is the character itself.
ElemMatches(e, c) ==
    CASE e = "." -> c # "\n"
      [] e = "\\s" -> c \in Whitespace
      [] OTHER -> e = c

\* The element sequence pat matches text at position p.
IsAt(text, pat, p) ==
    /\ p >= 1
    /\ p + Len(pat) - 1 <= Len(text)
    /\ \A i \in 1..Len(pat) : ElemMatches(pat[i], text[p + i - 1])

\* text[a..b] is non-empty and holds no line break: what (.+) can capture.
DotPlus(text, a, b) == a <= b /\ \A i \in a..b : text[i] # "\n"

\* re.search(R"(.+)<lit>", text): the leftmost start, then the longest
\* capture (greedy).  The result is the capture, or None.
Search1(text, lit) ==
    LET N == 1..Len(text)
        Ends == {e \in N : IsAt(text, lit, e + 1)}
        M == {m \in N \X Ends : DotPlus(text, m[1], m[2])}
    IN  IF M = {} THEN None
        ELSE LET s == CHOOSE s \in {m[1] : m \in M} : \A m \in M : s <= m[1]
                 e == CHOOSE e \in {m[2] : m \in M} :
                          /\ <<s, e>> \in M
                          /\ \A m \in M : m[1] = s => m[2] <= e
             IN  Str(SubSeq(text, s, e))

\* re.search(R"(.+)<lit1>(.+)<lit2>", text): the leftmost start, then the
\* longest first capture, then the longest second capture.
Search2(text, lit1, lit2) ==
    LET N == 1..Len(text)
        Mids == {e \in N : IsAt(text, lit1, e + 1)}
        Ends == {f \in N : IsAt(text, lit2, f + 1)}
        M == {m \in N \X Mids \X Ends :
                 /\ DotPlus(text, m[1], m[2])
                 /\ DotPlus(text, m[2] + 1 + Len(lit1), m[3])}
    IN  IF M = {} THEN None
        ELSE LET s == CHOOSE s \in {m[1] : m \in M} : \A m \in M : s <= m[1]
                 e == CHOOSE e \in {m[2] : m \in M} :
                          /\ \E m \in M : m[1] = s /\ m[2] = e
                          /\ \A m \in M : m[1] = s => m[2] <= e
                 f == CHOOSE f \in {m[3] : m \in M} :
                          /\ <<s, e, f>> \in M
                          /\ \A m \in M : (m[1] = s /\ m[2] = e) => m[3] <= f
             IN  Pair(Str(SubSeq(text, s, e)),
                      Str(SubSeq(text, e + 1 + Len(lit1), f)))

\* pattern.search(text) for an alternation of element sequences: does any
\* alternative match anywhere in text?
SearchAny(text, alts) ==
    \E k \in 1..Len(alts) : \E p \in 1..Len(text) : IsAt(text, alts[k], p)

(***************************************************************************)
(* Pages and their parse trees.                                            *)
(*                                                                         *)
(* The source of a page is its specification table: a sequence of rows,    *)
(* each with a caption cell and a value cell.  The caption is rendered in  *)
(* one of three shapes:                                                    *)
(*   "b"    <tr><td><b>caption</b></td><td>value</td></tr>                 *)
(*   "ba"   <tr><td><b><a>caption</a></b></td><td>value</td></tr>          *)
(*   "ba_"  <tr><td><b><a>caption</a> </b></td><td>value</td></tr>         *)
(* BeautifulSoup(text, "html.parser") is the sequence of the tree's nodes  *)
(* in document order; node 0 is the BeautifulSoup object itself.           *)
(***************************************************************************)
Node(name, parent, string) == [name |-> name, parent |-> parent, string |-> string]

\* The nodes of one row whose <tr> has index base; the <table> is node 1.
RowNodes(row, base) ==
    CASE row.shape = "b" ->
           << Node("tr", 1, <<>>),
              Node("td", base, <<>>),
              Node("b", base + 1, <<>>),
              Node("#text", base + 2, row.label),
              Node("td", base, <<>>),
              Node("#text", base + 4, row.value) >>
      [] row.shape = "ba" ->
           << Node("tr", 1, <<>>),
              Node("td", base, <<>>),
              Node("b", base + 1, <<>>),
              Node("a", base + 2, <<>>),
              Node("#text", base + 3, row.label),
              Node("td", base, <<>>),
              Node("#text", base + 5, row.value) >>
      [] row.shape = "ba_" ->
           << Node("tr", 1, <<>>),
              Node("td", base, <<>>),
              Node("b", base + 1, <<>>),
              Node("a", base + 2, <<>>),
              Node("#text", base + 3, row.label),
              Node("#text", base + 2, <<" ">>),
              Node("td", base, <<>>),
              Node("#text", base + 6, row.value) >>

RECURSIVE Soup(_)
Soup(page) ==
    IF page = <<>> THEN << Node("table", 0, <<>>) >>
    ELSE LET front == Soup(SubSeq(page, 1, Len(page) - 1))
         IN  front \o RowNodes(page[Len(page)], Len(front) + 1)

\* tag.parent; the parent of the BeautifulSoup object is None (here -1).
Parent(soup, n) == IF n >= 1 THEN soup[n].parent ELSE -1

\* n lies strictly below anc in the tree.
RECURSIVE IsBelow(_, _, _)
IsBelow(soup, n, anc) ==
    /\ n >= 1
    /\ \/ soup[n].parent = anc
       \/ IsBelow(soup, soup[n].parent, anc)

\* tag.contents, in document order.
Contents(soup, n) == {i \in 1..Len(soup) : soup[i].parent = n}

\* tag.string: the string of a tag's only child, looked up through tags
\* that themselves have a single child; None for any other number of
\* children.
RECURSIVE TagString(_, _)
TagString(soup, n) ==
    IF soup[n].name = "#text" THEN Str(soup[n].string)
    ELSE IF Cardinality(Contents(soup, n)) # 1 THEN None
    ELSE TagString(soup, CHOOSE c \in Contents(soup, n) : TRUE)

\* The string= filter of find: a compiled pattern is searched in the tag's
\* string, a plain string must equal it.
KeyMatches(key, string) ==
    /\ ~IsNone(string)
    /\ IF key.kind = "regex" THEN SearchAny(string.val, key.alts)
       ELSE string.val = key.val

\* Find answering with the last matching tag instead of the first.
Find_Last(soup, key) ==
    LET hits == {n \in 1..Len(soup) :
                    /\ soup[n].name \in {"a", "b"}
                    /\ KeyMatches(key, TagString(soup, n))}
    IN  IF hits = {} THEN 0
        ELSE CHOOSE n \in hits : \A m \in hits : n >= m

\* soup.find(["a", "b"], string=key): the first matching tag in document
\* order, or 0 for None.
Find(soup, key) ==
    LET hits == {n \in 1..Len(soup) :
                    /\ soup[n].name \in {"a", "b"}
                    /\ KeyMatches(key, TagString(soup, n))}
    IN  IF hits = {} THEN 0
        ELSE CHOOSE n \in hits : \A m \in hits : n <= m

\* tag.find_all('td'): the td tags below the tag, in document order.
FindAllTd(soup, n) ==
    {i \in 1..Len(soup) : soup[i].name = "td" /\ IsBelow(soup, i, n)}

\* The k-th smallest member of a set of numbers.
Nth(S, k) == CHOOSE x \in S : Cardinality({y \in S : y < x}) = k - 1

\* tag.text: the strings below the tag, concatenated in document order.
RECURSIVE TextFrom(_, _, _)
TextFrom(soup, n, i) ==
    IF i > Len(soup) THEN <<>>
    ELSE (IF soup[i].name = "#text" /\ IsBelow(soup, i, n)
          THEN soup[i].string ELSE <<>>) \o TextFrom(soup, n, i + 1)
TagText(soup, n) == TextFrom(soup, n, 1)

\* anc.find_all('td')[1].text; a missing ancestor raises AttributeError, a
\* row with fewer than two cells IndexError.
SecondOf(soup, cells) ==
    IF Cardinality(cells) < 2 THEN Raise("IndexError")
    ELSE Str(TagText(soup, Nth(cells, 2)))

SecondCellText(soup, anc) ==
    IF anc < 0 THEN Raise("AttributeError")
    ELSE SecondOf(soup, FindAllTd(soup, anc))

\* EntryOf without the special case for captions that are links.
EntryOf_NoLinkCase(soup, found) ==
    IF found = 0 THEN None
    ELSE SecondCellText(soup, Parent(soup, Parent(soup, found)))

\* The body of retrieve_entry once soup.find has answered.
EntryOf(soup, found) ==
    IF found = 0 THEN None
    ELSE IF soup[found].name = "a"
    THEN SecondCellText(soup, Parent(soup, Parent(soup, Parent(soup, found))))
    ELSE SecondCellText(soup, Parent(soup, Parent(soup, found)))

retrieve_entry(soup, key) == EntryOf(soup, Find(soup, key))

(***************************************************************************)
(* The label specifications and value patterns of src/main.py.  A pattern  *)
(* X\s{2,} or \s{2,}X is found in a string exactly when X\s\s or \s\sX is. *)
(***************************************************************************)
Regex(alts) == [kind |-> "regex", alts |-> alts]
Literal(s) == [kind |-> "literal", val |-> s]

PowerAlts ==
    << <<"P", "o", "w", "e", "r", "\\s", "\\s">>,
       <<"P", "o", "w", "e", "r", " ", "o", "u", "t", "p", "u", "t">>,
       <<"O", "u", "t", "p", "u", "t">>,
       <<"E", "f", "f", "e", "c", "t">> >>
WetWeightAlts ==
    << <<"W", "e", "i", "g", "h", "t", " ", "i", "n", "c", "l", ".", " ", "o", "i", "l">> >>
DryWeightAlts ==
    << <<"D", "r", "y", " ", "w", "e", "i", "g", "h", "t">> >>
YearAlts ==
    << <<"\\s", "\\s", "Y", "e", "a", "r">>,
       <<"Y", "e", "a", "r", " ", "m", "o", "d", "e", "l">>,
       <<"Y", "e", "a", "r", " ", "o", "f", " ", "m", "a", "n", "u", "f", "a", "c", "t", "u", "r", "e">>,
       <<"M", "o", "d", "e", "l", " ", "y", "e", "a", "r">> >>
ModelAlts ==
    << <<"M", "o", "d", "e", "l">>,
       <<"M", "o", "t", "o", "r", "c", "y", "c", "l", "e", " ", "n", "a", "m", "e">> >>
RatioAlts ==
    << <<"P", "o", "w", "e", "r", "/", "w", "e", "i", "g", "h", "t">> >>
TorqueLabel == <<"T", "o", "r", "q", "u", "e">>
DisplacementLabel == <<"D", "i", "s", "p", "l", "a", "c", "e", "m", "e", "n", "t">>

PowerKey == Regex(PowerAlts)
WetWeightKey == Regex(WetWeightAlts)
DryWeightKey == Regex(DryWeightAlts)
YearKey == Regex(YearAlts)
ModelKey == Regex(ModelAlts)
RatioKey == Regex(RatioAlts)
TorqueKey == Literal(TorqueLabel)
DisplacementKey == Literal(DisplacementLabel)

\* R"(.+) HP \((.+)  kW\)\)"
PowerMid == <<" ", "H", "P", " ", "(">>
PowerEnd == <<" ", " ", "k", "W", ")", ")">>
\* R"(.+) kg \((.+) pounds\)"
WeightMid == <<" ", "k", "g", " ", "(">>
WeightEnd == <<" ", "p", "o", "u", "n", "d", "s", ")">>
\* R"(.+) HP/kg"
RatioEnd == <<" ", "H", "P", "/", "k", "g">>

(***************************************************************************)
(* The value parsers.                                                      *)
(***************************************************************************)
\* float(match[1]...), float(match[2]...): the first conversion that raises
\* leaves the call, otherwise the pair of numbers is returned.
\* PairOrRaise giving up only the half whose conversion failed.
PairOrRaise_HalfOnError(a, b) ==
    IF IsRaise(a) THEN a ELSE IF IsRaise(b) THEN Pair(a, None) ELSE Pair(a, b)

PairOrRaise(a, b) == IF IsRaise(a) THEN a ELSE IF IsRaise(b) THEN b ELSE Pair(a, b)
NumberPair(match) == PairOrRaise(ToNumber(match.fst.val), ToNumber(match.snd.val))

\* The body of parse_power after the entry is retrieved.
PairOfMatch(match) == IF IsNone(match) THEN Pair(None, None) ELSE NumberPair(match)

ParsePowerEntry(power_entry) ==
    IF IsRaise(power_entry) THEN power_entry
    ELSE IF IsNone(power_entry) THEN Pair(None, None)
    ELSE PairOfMatch(Search2(power_entry.val, PowerMid, PowerEnd))

parse_power(soup) == ParsePowerEntry(retrieve_entry(soup, PowerKey))

\* The body of parse_weight after the entry is retrieved.
ParseWeightEntry(weight_entry) ==
    IF IsRaise(weight_entry) THEN weight_entry
    ELSE IF IsNone(weight_entry) THEN Pair(None, None)
    ELSE PairOfMatch(Search2(weight_entry.val, WeightMid, WeightEnd))

parse_weight(soup, key) == ParseWeightEntry(retrieve_entry(soup, key))

\* The branch of parse_power_weight_ratio taken when no Power/weight entry
\* is located: `if power_hp:`, `if wet_weight_kg:`, `elif dry_weight_kg:`.
DeriveRatio(power_hp, wet_weight_kg, dry_weight_kg) ==
    IF Truthy(power_hp) /\ Truthy(wet_weight_kg)
    THEN FloatDiv(power_hp, wet_weight_kg)
    ELSE IF Truthy(power_hp) /\ Truthy(dry_weight_kg)
    THEN FloatDiv(power_hp, dry_weight_kg)
    ELSE None

\* The branch taken when a Power/weight entry is located.
RatioOfMatch(match) == IF IsNone(match) THEN None ELSE ToNumber(match.val)
ParseRatioEntry(p_w_r_entry) == RatioOfMatch(Search1(p_w_r_entry.val, RatioEnd))

\* RatioFrom preferring the derived ratio whenever it can be derived.
RatioFrom_DeriveFirst(p_w_r_entry, power_hp, wet_weight_kg, dry_weight_kg) ==
    IF IsRaise(p_w_r_entry) THEN p_w_r_entry
    ELSE IF IsNone(p_w_r_entry)
            \/ ~IsNone(DeriveRatio(power_hp, wet_weight_kg, dry_weight_kg))
    THEN DeriveRatio(power_hp, wet_weight_kg, dry_weight_kg)
    ELSE ParseRatioEntry(p_w_r_entry)

\* The body of parse_power_weight_ratio after the entry is retrieved.
RatioFrom(p_w_r_entry, power_hp, wet_weight_kg, dry_weight_kg) ==
    IF IsRaise(p_w_r_entry) THEN p_w_r_entry
    ELSE IF IsNone(p_w_r_entry)
    THEN DeriveRatio(power_hp, wet_weight_kg, dry_weight_kg)
    ELSE ParseRatioEntry(p_w_r_entry)

parse_power_weight_ratio(soup, power_hp, wet_weight_kg, dry_weight_kg) ==
    RatioFrom(retrieve_entry(soup, RatioKey), power_hp, wet_weight_kg, dry_weight_kg)

(***************************************************************************)
(* retrieve_page.  A response is what requests.get(url) gives: the page    *)
(* source, or an exception.  The statements run in source order and the    *)
(* first exception leaves the function.                                    *)
(***************************************************************************)
Html(page) == [kind |-> "html", page |-> page]

\* The first raised exception of a sequence of values, or None.
RECURSIVE FirstRaise(_)
FirstRaise(vals) ==
    IF vals = <<>> THEN None
    ELSE IF IsRaise(Head(vals)) THEN Head(vals)
    ELSE FirstRaise(Tail(vals))

\* `if year is not None: year = int(year)`
YearOf(year) == IF year.kind = "str" THEN PyInt(year.val) ELSE year

\* The first half of a pair, when the call returned one.
Fst(v) == IF v.kind = "pair" THEN v.fst ELSE None

\* The dict retrieve_page returns, unless one of its statements raised.
Entries(url, name, power, wet, dry, year, torque, displacement, ratio, raised) ==
    IF IsRaise(raised) THEN raised
    ELSE [kind |-> "dict",
          model |-> name,
          year |-> year,
          power_hp |-> power.fst,
          power_kw |-> power.snd,
          torque |-> torque,
          displacement |-> displacement,
          wet_weight_kg |-> wet.fst,
          wet_weight_lb |-> wet.snd,
          dry_weight_kg |-> dry.fst,
          dry_weight_lb |-> dry.snd,
          power_weight_ratio_hp_kg |-> ratio,
          url |-> url]

InOrder(url, name, power, wet, dry, year, torque, displacement, ratio) ==
    Entries(url, name, power, wet, dry, year, torque, displacement, ratio,
            FirstRaise(<<name, power, wet, dry, year, torque, displacement, ratio>>))

WithRatio(url, soup, name, power, wet, dry, year, torque, displacement) ==
    InOrder(url, name, power, wet, dry, year, torque, displacement,
            parse_power_weight_ratio(soup, Fst(power), Fst(wet), Fst(dry)))

Extract(url, soup) ==
    WithRatio(url, soup,
              retrieve_entry(soup, ModelKey),
              parse_power(soup),
              parse_weight(soup, WetWeightKey),
              parse_weight(soup, DryWeightKey),
              YearOf(retrieve_entry(soup, YearKey)),
              retrieve_entry(soup, TorqueKey),
              retrieve_entry(soup, DisplacementKey))

retrieve_page(url, response) ==
    IF IsRaise(response) THEN response
    ELSE Extract(url, Soup(response.page))

(***************************************************************************)
(* Sample captions and value texts, as they occur in specification tables. *)
(***************************************************************************)
L_Model == <<"M", "o", "d", "e", "l", ":">>
L_Name == <<"M", "o", "t", "o", "r", "c", "y", "c", "l", "e", " ", "n", "a", "m", "e", ":">>
L_ModelYear == <<"M", "o", "d", "e", "l", " ", "y", "e", "a", "r", ":">>
L_YearModel == <<"Y", "e", "a", "r", " ", "m", "o", "d", "e", "l", ":">>
L_Year == <<" ", " ", "Y", "e", "a", "r", ":">>
L_PlainYear == <<"Y", "e", "a", "r", ":">>
L_Power == <<"P", "o", "w", "e", "r", " ", " ">>
L_Output == <<"O", "u", "t", "p", "u", "t", ":">>
L_Wet == <<"W", "e", "i", "g", "h", "t", " ", "i", "n", "c", "l", ".", " ", "o", "i", "l", ":">>
L_Dry == <<"D", "r", "y", " ", "w", "e", "i", "g", "h", "t", ":">>
L_Ratio == <<"P", "o", "w", "e", "r", "/", "w", "e", "i", "g", "h", "t", " ", "r", "a", "t", "i", "o", ":">>
L_Torque == <<"T", "o", "r", "q", "u", "e">>
L_TorqueColon == <<"T", "o", "r", "q", "u", "e", ":">>
L_Displacement == <<"D", "i", "s", "p", "l", "a", "c", "e", "m", "e", "n", "t">>

V_Name == <<"C", "B", "5", "0", "0">>
V_Name2 == <<"V", "F", "R">>
V_Year == <<"2", "0", "2", "0">>
V_Year2 == <<"1", "9", "9", "9">>
V_BadYear == <<"2", "0", "x", "x">>
V_Power == <<"1", "0", "0", " ", "H", "P", " ", "(", "7", "4", ".", "6", " ", " ", "k", "W", ")", ")">>
V_PowerZero == <<"0", " ", "H", "P", " ", "(", "0", " ", " ", "k", "W", ")", ")">>
V_PowerOneParen == <<"1", "0", "0", " ", "H", "P", " ", "(", "7", "4", ".", "6", " ", "k", "W", ")">>
V_PowerNoNum == <<"x", " ", "H", "P", " ", "(", "1", " ", " ", "k", "W", ")", ")">>
V_PowerNoNum2 == <<"1", " ", "H", "P", " ", "(", "x", " ", " ", "k", "W", ")", ")">>
V_Wet == <<"2", "0", "0", " ", "k", "g", " ", "(", "4", "4", "0", " ", "p", "o", "u", "n", "d", "s", ")">>
V_Dry == <<"1", ",", "1", "8", "0", " ", "k", "g", " ", "(", "2", ",", "6", "0", "1", " ", "p", "o", "u", "n", "d", "s", ")">>
V_WeightZero == <<"0", " ", "k", "g", " ", "(", "0", " ", "p", "o", "u", "n", "d", "s", ")">>
V_WeightNA == <<"N", "/", "A">>
V_WeightNoNum == <<"?", " ", "k", "g", " ", "(", "1", " ", "p", "o", "u", "n", "d", "s", ")">>
V_Ratio == <<"0", ".", "7", " ", "H", "P", "/", "k", "g">>
V_RatioNoUnit == <<"0", ".", "7">>
V_RatioNoNum == <<"-", " ", "H", "P", "/", "k", "g">>
V_Torque == <<"4", "3", " ", "N", "m">>
V_Displacement == <<"4", "7", "1", " ", "c", "c", "m">>

Row(shape, label, value) == [shape |-> shape, label |-> label, value |-> value]

SampleRows ==
    { Row("b", L_Model, V_Name),
      Row("ba", L_Name, V_Name2),
      Row("b", L_ModelYear, V_Year),
      Row("ba_", L_YearModel, V_Year2),
      Row("b", L_Year, V_BadYear),
      Row("b", L_PlainYear, V_Year),
      Row("b", L_Power, V_Power),
      Row("ba", L_Output, V_PowerZero),
      Row("b", L_Power, V_PowerOneParen),
      Row("ba_", L_Output, V_PowerNoNum),
      Row("b", L_Power, V_PowerNoNum2),
      Row("b", L_Wet, V_Wet),
      Row("ba", L_Wet, V_WeightNA),
      Row("b", L_Wet, V_WeightZero),
      Row("b", L_Dry, V_Dry),
      Row("ba_", L_Dry, V_WeightNoNum),
      Row("b", L_Ratio, V_Ratio),
      Row("ba", L_Ratio, V_RatioNoUnit),
      Row("ba_", L_Ratio, V_RatioNoNum),
      Row("b", L_Torque, V_Torque),
      Row("b", L_TorqueColon, V_Torque),
      Row("ba", L_Displacement, V_Displacement) }

\* The sequences over S of length at most n.
RECURSIVE SeqsUpTo(_, _)
SeqsUpTo(S, n) ==
    IF n = 0 THEN {<<>>}
    ELSE LET shorter == SeqsUpTo(S, n - 1)
         IN  shorter \cup {Append(s, x) : s \in {t \in shorter : Len(t) = n - 1}, x \in S}

\* The page sources the extraction functions are applied to.
Pages == SeqsUpTo(SampleRows, MaxRows)

Keys == {ModelKey, YearKey, PowerKey, WetWeightKey, DryWeightKey, RatioKey,
         TorqueKey, DisplacementKey}

\* The already-parsed numbers parse_power_weight_ratio is called with.
PowerArgs == {None, Float(0, 1), Float(100, 1)}
WetArgs == {None, Float(0, 1), Float(200, 1)}
DryArgs == {None, Float(180, 1)}

\* Page identifiers.
Identifiers == {<<"u", "1">>, <<"u", "2">>, <<"u", "3">>}

(***************************************************************************)
(* parse_sitemap and the cache file url.list.                              *)
(***************************************************************************)
NoFile == [kind |-> "nofile"]
File(content) == [kind |-> "file", content |-> content]
List(items) == [kind |-> "list", items |-> items]

\* Position of the first line break of s, or 0.
BreakAt(s) ==
    IF \E i \in 1..Len(s) : s[i] = "\n"
    THEN CHOOSE i \in 1..Len(s) : s[i] = "\n" /\ \A j \in 1..(i - 1) : s[j] # "\n"
    ELSE 0

\* s.splitlines() for texts whose only line break is "\n": the lines of s
\* without their line breaks; a final line break does not open another line.
RECURSIVE SplitLines(_)
SplitLines(s) ==
    IF s = <<>> THEN <<>>
    ELSE IF BreakAt(s) = 0 THEN <<s>>
    ELSE <<SubSeq(s, 1, BreakAt(s) - 1)>>
             \o SplitLines(SubSeq(s, BreakAt(s) + 1, Len(s)))

\* '\n'.join(items)
RECURSIVE JoinLines(_)
JoinLines(items) ==
    IF items = <<>> THEN <<>>
    ELSE IF Len(items) = 1 THEN items[1]
    ELSE items[1] \o <<"\n">> \o JoinLines(Tail(items))

\* [url.loc.string for url in soup.urlset.find_all("url")]: the string of
\* each <loc>, None for a <loc> without text.
LocStrings(locs) == [i \in 1..Len(locs) |-> locs[i]]
AllStrings(items) == \A i \in 1..Len(items) : items[i].kind = "str"
StringsOf(items) == [i \in 1..Len(items) |-> items[i].val]

\* One call of parse_sitemap on the cache file `file`, with `response` what
\* requests.get(sitemap) gives when it is asked: the <loc> values of the
\* sitemap, or an exception.  The result is what the call returns or
\* raises, the file afterwards, and whether the network was used.
\* open(URL_LIST_FILENAME, "w+") creates the file before join is evaluated,
\* so a <loc> without text leaves an empty file behind the TypeError.
parse_sitemap(file, response) ==
    IF file.kind = "file"
    THEN [ret |-> List(SplitLines(file.content)), file |-> file, fetched |-> FALSE]
    ELSE IF IsRaise(response)
    THEN [ret |-> response, file |-> file, fetched |-> TRUE]
    ELSE LET url_list == LocStrings(response.locs)
         IN  IF AllStrings(url_list)
             THEN [ret |-> List(StringsOf(url_list)),
                   file |-> File(JoinLines(StringsOf(url_list))),
                   fetched |-> TRUE]
             ELSE [ret |-> Raise("TypeError"), file |-> File(<<>>), fetched |-> TRUE]

\* The <loc> values a sitemap may hold, and the cache files a run may find.
LocValues == {Str(<<"a">>), Str(<<"b">>), Str(<<"\n", "a">>), None}
Sitemaps == SeqsUpTo(LocValues, MaxLocs)
Xml(locs) == [kind |-> "xml", locs |-> locs]
CacheFiles ==
    {NoFile, File(<<>>), File(<<"a", "\n", "b">>), File(<<"a", "\n", "b", "\n">>)}

(***************************************************************************)
(* retrieve_data: the pool and the loop over imap_unordered.               *)
(***************************************************************************)
\* A task of imap_unordered: the position of an identifier in url_list and
\* the identifier.  The N_PROCESS worker processes are interchangeable, so
\* the pool is the set of tasks its workers are running.
Task(i, url) == [i |-> i, url |-> url]

\* Pool(N_PROCESS): a worker is free while fewer than N_PROCESS tasks run.
WorkerFree(running) == Cardinality(running) < N_PROCESS

\* RemainingTasks handing out two identifiers to one worker call.
RemainingTasks_SkipOne(tasks) ==
    IF Len(tasks) > 1 THEN Tail(Tail(tasks)) ELSE Tail(tasks)

\* The tasks left once a worker has taken the first.
RemainingTasks(tasks) == Tail(tasks)

\* results.append(result)
Appended(list, result) == Append(list, result)

\* What requests.get gives for a page: its source, or an exception.
Responses ==
    { Raise("ConnectionError"),
      Html(<<>>),
      Html(<<Row("b", L_Model, V_Name)>>),
      Html(<<Row("b", L_Year, V_BadYear)>>) }

UrlLists == SeqsUpTo(Identifiers, MaxPages)

VARIABLES
    page,           \* the source of the page under extraction
    call,           \* the function applied to it, with its arguments
    ret,            \* what the call returned or raised
    sitemap,        \* the <loc> values the sitemap source holds
    url_list_file,  \* the cache file url.list
    fetches,        \* requests.get calls made for the sitemap
    returned,       \* the outcome of each call of parse_sitemap
    existed,        \* the cache file as each call of parse_sitemap found it
    url_list,       \* the argument of retrieve_data
    taskq,          \* the identifiers not yet taken by a worker
    busy,           \* the tasks the workers are running
    outq,           \* finished tasks not yet seen by the loop
    results,        \* the list retrieve_data builds
    pc,             \* where main is
    faulted,        \* some retrieve_page has raised
    exported        \* the rows export_data wrote

extractVars == <<page, call, ret>>
sitemapVars == <<sitemap, url_list_file, fetches, returned, existed>>
poolVars == <<url_list, taskq, busy, outq, results, pc, faulted, exported>>
vars == <<page, call, ret, sitemap, url_list_file, fetches, returned, existed,
          url_list, taskq, busy, outq, results, pc, faulted, exported>>

NoCall == [fn |-> "none"]

ExtractIdle ==
    /\ page = <<>>
    /\ call = NoCall
    /\ ret = None

SitemapIdle ==
    /\ sitemap = <<>>
    /\ url_list_file = NoFile
    /\ fetches = 0
    /\ returned = <<>>
    /\ existed = <<>>

PoolIdle ==
    /\ url_list = <<>>
    /\ taskq = <<>>
    /\ busy = {}
    /\ outq = <<>>
    /\ results = <<>>
    /\ pc = "idle"
    /\ faulted = FALSE
    /\ exported = None

(***************************************************************************)
(* The extraction functions, each applied once to a page.                  *)
(***************************************************************************)
InitExtract ==
    /\ page \in Pages
    /\ call = NoCall
    /\ ret = None
    /\ SitemapIdle
    /\ PoolIdle

CallRetrieveEntry ==
    /\ call = NoCall
    /\ \E key \in Keys :
          /\ call' = [fn |-> "retrieve_entry", key |-> key]
          /\ ret' = retrieve_entry(Soup(page), key)
    /\ UNCHANGED <<page, sitemapVars, poolVars>>

CallParsePower ==
    /\ call = NoCall
    /\ call' = [fn |-> "parse_power"]
    /\ ret' = parse_power(Soup(page))
    /\ UNCHANGED <<page, sitemapVars, poolVars>>

CallParseWeight ==
    /\ call = NoCall
    /\ \E key \in {WetWeightKey, DryWeightKey} :
          /\ call' = [fn |-> "parse_weight", key |-> key]
          /\ ret' = parse_weight(Soup(page), key)
    /\ UNCHANGED <<page, sitemapVars, poolVars>>

CallParsePowerWeightRatio ==
    /\ call = NoCall
    /\ \E p \in PowerArgs, w \in WetArgs, d \in DryArgs :
          /\ call' = [fn |-> "parse_power_weight_ratio",
                      power_hp |-> p, wet_weight_kg |-> w, dry_weight_kg |-> d]
          /\ ret' = parse_power_weight_ratio(Soup(page), p, w, d)
    /\ UNCHANGED <<page, sitemapVars, poolVars>>

CallRetrievePage ==
    /\ call = NoCall
    /\ \E url \in Identifiers :
          /\ call' = [fn |-> "retrieve_page", url |-> url]
          /\ ret' = retrieve_page(url, Html(page))
    /\ UNCHANGED <<page, sitemapVars, poolVars>>

NextExtract ==
    \/ CallRetrieveEntry
    \/ CallParsePower
    \/ CallParseWeight
    \/ CallParsePowerWeightRatio
    \/ CallRetrievePage

SpecExtract == InitExtract /\ [][NextExtract]_vars

(***************************************************************************)
(* Successive calls of parse_sitemap (one per run of the program) on the   *)
(* same working directory.                                                 *)
(***************************************************************************)
InitSitemap ==
    /\ sitemap \in Sitemaps
    /\ url_list_file \in CacheFiles
    /\ fetches = 0
    /\ returned = <<>>
    /\ existed = <<>>
    /\ ExtractIdle
    /\ PoolIdle

\* A call during which the sitemap source answers.
CallParseSitemap ==
    /\ Len(returned) < MaxCalls
    /\ \E r \in {parse_sitemap(url_list_file, Xml(sitemap))} :
           /\ returned' = Append(returned, r)
           /\ existed' = Append(existed, url_list_file)
           /\ url_list_file' = r.file
           /\ fetches' = fetches + (IF r.fetched THEN 1 ELSE 0)
    /\ UNCHANGED <<sitemap, extractVars, poolVars>>

\* A call during which the sitemap source cannot be reached.
CallParseSitemapOffline ==
    /\ Len(returned) < MaxCalls
    /\ \E r \in {parse_sitemap(url_list_file, Raise("ConnectionError"))} :
           /\ returned' = Append(returned, r)
           /\ existed' = Append(existed, url_list_file)
           /\ url_list_file' = r.file
           /\ fetches' = fetches + (IF r.fetched THEN 1 ELSE 0)
    /\ UNCHANGED <<sitemap, extractVars, poolVars>>

NextSitemap ==
    \/ CallParseSitemap
    \/ CallParseSitemapOffline

SpecSitemap == InitSitemap /\ [][NextSitemap]_vars

(***************************************************************************)
(* main from the call of retrieve_data on: the pool's workers take the     *)
(* identifiers in order and run retrieve_page; the loop appends each       *)
(* finished task's result as it arrives, or re-raises the exception the    *)
(* task raised, which leaves retrieve_data and main.                       *)
(***************************************************************************)
InitRun ==
    /\ url_list \in UrlLists
    /\ taskq = <<>>
    /\ busy = {}
    /\ outq = <<>>
    /\ results = <<>>
    /\ pc = "retrieve_data"
    /\ faulted = FALSE
    /\ exported = None
    /\ ExtractIdle
    /\ SitemapIdle

\* with Pool(N_PROCESS) as pool: ... pool.imap_unordered(retrieve_page, url_list)
StartPool ==
    /\ pc = "retrieve_data"
    /\ pc' = "loop"
    /\ taskq' = url_list
    /\ UNCHANGED <<url_list, busy, outq, results, faulted, exported,
                   extractVars, sitemapVars>>

\* A free worker takes the next identifier.
WorkerGet ==
    /\ pc = "loop"
    /\ WorkerFree(busy)
    /\ taskq # <<>>
    /\ busy' = busy \cup {Task(Len(url_list) - Len(taskq) + 1, Head(taskq))}
    /\ taskq' = RemainingTasks(taskq)
    /\ UNCHANGED <<url_list, outq, results, pc, faulted, exported,
                   extractVars, sitemapVars>>

\* The worker runs retrieve_page and sends back the record or the exception.
WorkerRun(task) ==
    /\ pc = "loop"
    /\ task \in busy
    /\ \E result \in {retrieve_page(task.url, response) : response \in Responses} :
          /\ outq' = Append(outq, result)
          /\ faulted' = (faulted \/ IsRaise(result))
    /\ busy' = busy \ {task}
    /\ UNCHANGED <<url_list, taskq, results, pc, exported,
                   extractVars, sitemapVars>>

\* One iteration of the for loop: the next finished task is a record and is
\* appended.
LoopAppend ==
    /\ pc = "loop"
    /\ outq # <<>>
    /\ ~IsRaise(Head(outq))
    /\ results' = Appended(results, Head(outq))
    /\ outq' = Tail(outq)
    /\ UNCHANGED <<url_list, taskq, busy, pc, faulted, exported,
                   extractVars, sitemapVars>>

\* One iteration of the for loop: the next finished task is an exception;
\* next() raises it, the with block terminates the pool and the exception
\* leaves retrieve_data and main.
LoopRaise ==
    /\ pc = "loop"
    /\ outq # <<>>
    /\ IsRaise(Head(outq))
    /\ pc' = "aborted"
    /\ taskq' = <<>>
    /\ busy' = {}
    /\ outq' = <<>>
    /\ UNCHANGED <<url_list, results, faulted, exported,
                   extractVars, sitemapVars>>

\* The iterator is exhausted: retrieve_data returns results.
LoopEnd ==
    /\ pc = "loop"
    /\ taskq = <<>>
    /\ outq = <<>>
    /\ busy = {}
    /\ pc' = "export_data"
    /\ UNCHANGED <<url_list, taskq, busy, outq, results, faulted, exported,
                   extractVars, sitemapVars>>

\* export_data(data): data[0] raises IndexError on an empty list; otherwise
\* one row per record is written.
ExportData ==
    /\ pc = "export_data"
    /\ IF results = <<>>
       THEN pc' = "aborted" /\ UNCHANGED exported
       ELSE pc' = "done" /\ exported' = List(results)
    /\ UNCHANGED <<url_list, taskq, busy, outq, results, faulted,
                   extractVars, sitemapVars>>

NextRun ==
    \/ StartPool
    \/ WorkerGet
    \/ \E task \in busy : WorkerRun(task)
    \/ LoopAppend
    \/ LoopRaise
    \/ LoopEnd
    \/ ExportData

SpecRun == InitRun /\ [][NextRun]_vars

(***************************************************************************)
(* Properties.  The rows of a page are read directly here, not through the *)
(* parse tree, so that the properties do not repeat retrieve_entry.        *)
(***************************************************************************)
\* The caption of a row satisfies a label specification.
RowMatches(row, key) ==
    IF key.kind = "regex" THEN SearchAny(row.label, key.alts)
    ELSE row.label = key.val

\* The rows of a page whose caption satisfies key, by position.
MatchingRows(pg, key) == {i \in 1..Len(pg) : RowMatches(pg[i], key)}
FirstOf(S) == CHOOSE i \in S : \A j \in S : i <= j

\* The position in the specification of the first alias found in a caption.
AliasOf(row, key) ==
    FirstOf({k \in 1..Len(key.alts) :
                \E q \in 1..Len(row.label) : IsAt(row.label, key.alts[k], q)})

\* The matching row whose alias comes first in the specification (the first
\* such row in the document when several carry that alias).
BestAliasRow(pg, key) ==
    FirstOf({i \in MatchingRows(pg, key) :
                \A j \in MatchingRows(pg, key) :
                    AliasOf(pg[i], key) <= AliasOf(pg[j], key)})

\* Two rows of the page match different aliases of key.
TwoAliases(pg, key) ==
    \E i, j \in MatchingRows(pg, key) : AliasOf(pg[i], key) # AliasOf(pg[j], key)

\* The page with every caption rendered as plain emphasis text.
AsPlain(pg) == [i \in 1..Len(pg) |-> Row("b", pg[i].label, pg[i].value)]

\* The page without the rows whose caption satisfies one of the keys.
RECURSIVE Without(_, _)
Without(pg, keys) ==
    IF pg = <<>> THEN <<>>
    ELSE IF \E k \in keys : RowMatches(Head(pg), k) THEN Without(Tail(pg), keys)
    ELSE <<Head(pg)>> \o Without(Tail(pg), keys)

Present(v) == ~IsNone(v)
IsValueError(v) == v = Raise("ValueError")

\* The fields of a page whose located value matches the field's pattern
\* but holds a numeral that cannot be converted.
FailingKeys(pg) ==
    {k \in {PowerKey} : IsValueError(parse_power(Soup(pg)))}
    \cup {k \in {WetWeightKey, DryWeightKey} : IsValueError(parse_weight(Soup(pg), k))}
    \cup {k \in {YearKey} : IsValueError(YearOf(retrieve_entry(Soup(pg), k)))}
    \cup {k \in {RatioKey} :
             IsValueError(parse_power_weight_ratio(Soup(pg), None, None, None))}

\* The ratio the derivation rules give when they go by presence.
DerivedByPresence(p, w, d) ==
    IF Present(p) /\ Present(w) THEN FloatDiv(p, w)
    ELSE IF Present(p) /\ Present(d) THEN FloatDiv(p, d)
    ELSE None

NonZero(v) == IsNone(v) \/ v.num # 0

\* C1: a retrieve_page that raises for one identifier does not abort the
\* run: the run never ends aborted once a page has faulted.
C1_PageFaultDoesNotAbort == faulted => pc # "aborted"

\* C2: when a located value matches its pattern but a numeral in it cannot
\* be converted, retrieve_page still returns a record, and the record is
\* the one the page gives without the rows of the failing fields.
C2_ConversionFailureIsLocal ==
    (call.fn = "retrieve_page" /\ FailingKeys(page) # {})
        => /\ ret.kind = "dict"
           /\ ret = retrieve_page(call.url, Html(Without(page, FailingKeys(page))))

\* The records of results that carry identifier u, and the positions of the
\* page list that hold it.
RecordsFor(u) == Cardinality({k \in 1..Len(results) : results[k].url = u})
PositionsOf(u) == Cardinality({k \in 1..Len(url_list) : url_list[k] = u})

\* C3: when retrieve_data has returned and no page faulted, results holds
\* exactly one record per position of the page list, each carrying the
\* identifier of its page, in any order.
C3_OneRecordPerPage ==
    (pc \notin {"retrieve_data", "loop"} /\ ~faulted)
        => /\ Len(results) = Len(url_list)
           /\ \A k \in 1..Len(results) : results[k].kind = "dict"
           /\ \A u \in Identifiers : RecordsFor(u) = PositionsOf(u)

\* A run of three distinct pages that ended with the records in another
\* order than the page list.
C3_Witness ==
    /\ pc = "done"
    /\ ~faulted
    /\ Len(url_list) = 3
    /\ Len(results) = 3
    /\ Cardinality({url_list[k] : k \in 1..3}) = 3
    /\ results[1].url = url_list[3]
    /\ results[2].url = url_list[1]
    /\ results[3].url = url_list[2]

CoNull(a, b) == IsNone(a) <=> IsNone(b)

\* C4: parse_power and parse_weight return both halves of a pair or
\* neither, and so does every record of retrieve_page for its three pairs.
C4_PairsCoNull ==
    /\ (call.fn \in {"parse_power", "parse_weight"} /\ ret.kind = "pair")
           => CoNull(ret.fst, ret.snd)
    /\ (call.fn = "retrieve_page" /\ ret.kind = "dict")
           => /\ CoNull(ret.power_hp, ret.power_kw)
              /\ CoNull(ret.wet_weight_kg, ret.wet_weight_lb)
              /\ CoNull(ret.dry_weight_kg, ret.dry_weight_lb)

\* A record with the power pair present and the wet weight pair absent
\* although a wet weight row is on the page (its text does not match).
C4_Witness ==
    /\ call.fn = "retrieve_page"
    /\ ret.kind = "dict"
    /\ Present(ret.power_hp) /\ Present(ret.power_kw)
    /\ IsNone(ret.wet_weight_kg) /\ IsNone(ret.wet_weight_lb)
    /\ MatchingRows(page, WetWeightKey) # {}

\* C5: with no Power/weight row on the page and weights that are absent or
\* non-zero, the ratio is power/wet when both are present, else power/dry
\* when both are present, else absent; a power of zero counts as present.
C5_DerivationByPresence ==
    (/\ call.fn = "parse_power_weight_ratio"
     /\ MatchingRows(page, RatioKey) = {}
     /\ NonZero(call.wet_weight_kg) /\ NonZero(call.dry_weight_kg))
        => ret = DerivedByPresence(call.power_hp, call.wet_weight_kg,
                                   call.dry_weight_kg)

\* C6: when the first Power/weight row of the page reads "0.7 HP/kg", the
\* ratio is 0.7 whatever power and weights the call is given.
C6_ExplicitRatioWins ==
    (/\ call.fn = "parse_power_weight_ratio"
     /\ MatchingRows(page, RatioKey) # {}
     /\ page[FirstOf(MatchingRows(page, RatioKey))].value = V_Ratio)
        => ret = Float(7, 10)

\* The explicit 0.7 returned where power 100 and wet weight 200 would
\* derive 0.5.
C6_Witness ==
    /\ call.fn = "parse_power_weight_ratio"
    /\ call.power_hp = Float(100, 1)
    /\ call.wet_weight_kg = Float(200, 1)
    /\ MatchingRows(page, RatioKey) # {}
    /\ ret = Float(7, 10)

\* C7 as claimed: when rows of the page match different aliases of a
\* pattern, retrieve_entry returns the value of the row whose alias is
\* listed first in the pattern, wherever that row stands in the document.
C7_HighestPriorityAlias ==
    (/\ call.fn = "retrieve_entry"
     /\ call.key.kind = "regex"
     /\ TwoAliases(page, call.key))
        => ret = Str(page[BestAliasRow(page, call.key)].value)

\* C7 as amended: when rows of the page match different aliases of a
\* pattern, retrieve_entry returns the value of the matching row that
\* comes first in the document, whatever the position of its alias.
C7_FirstLabelInDocument ==
    (/\ call.fn = "retrieve_entry"
     /\ call.key.kind = "regex"
     /\ TwoAliases(page, call.key))
        => ret = Str(page[FirstOf(MatchingRows(page, call.key))].value)

\* The first row's alias is listed after the second row's, and the first
\* row's value is returned.
C7_Witness ==
    /\ call.fn = "retrieve_entry"
    /\ call.key.kind = "regex"
    /\ Len(page) = 2
    /\ MatchingRows(page, call.key) = {1, 2}
    /\ AliasOf(page[1], call.key) > AliasOf(page[2], call.key)
    /\ page[1].value # page[2].value
    /\ ret = Str(page[1].value)

\* C8: a call that finds the cache file uses no network, leaves the file
\* as it is and returns its lines; a call that finds none and returns a
\* sequence has used the network, and every later call returns the same
\* sequence without the network.
C8_CacheRoundTrip ==
    \A i \in 1..Len(returned) :
        /\ existed[i].kind = "file"
               => /\ ~returned[i].fetched
                  /\ returned[i].file = existed[i]
                  /\ returned[i].ret = List(SplitLines(existed[i].content))
        /\ (existed[i] = NoFile /\ returned[i].ret.kind = "list")
               => /\ returned[i].fetched
                  /\ \A j \in (i + 1)..Len(returned) :
                         /\ ~returned[j].fetched
                         /\ returned[j].ret = returned[i].ret

\* C9: retrieve_entry returns the second cell of the first row whose
\* caption matches, the same for a caption that is plain emphasis text and
\* for one wrapped in a link, and None when no caption matches.
C9_BothShapesSameCell ==
    call.fn = "retrieve_entry"
        => IF MatchingRows(page, call.key) = {} THEN ret = None
           ELSE /\ ret = Str(page[FirstOf(MatchingRows(page, call.key))].value)
                /\ ret = retrieve_entry(Soup(AsPlain(page)), call.key)

\* The located caption is a link followed by other text inside the
\* emphasis element, so that the link itself is what find returns.
C9_Witness ==
    /\ call.fn = "retrieve_entry"
    /\ MatchingRows(page, call.key) # {}
    /\ page[FirstOf(MatchingRows(page, call.key))].shape = "ba_"
    /\ ret = Str(page[FirstOf(MatchingRows(page, call.key))].value)

\* C10: when the first Power/weight row of the page does not read
\* "<num> HP/kg", the ratio is derived from power and weights (here for
\* numbers that are absent or non-zero).
C10_UnparsedExplicitFallsThrough ==
    (/\ call.fn = "parse_power_weight_ratio"
     /\ MatchingRows(page, RatioKey) # {}
     /\ IsNone(Search1(page[FirstOf(MatchingRows(page, RatioKey))].value, RatioEnd))
     /\ NonZero(call.power_hp)
     /\ NonZero(call.wet_weight_kg) /\ NonZero(call.dry_weight_kg))
        => ret = DerivedByPresence(call.power_hp, call.wet_weight_kg,
                                   call.dry_weight_kg)

====
